---- MODULE Spec2Model ----
(***************************************************************************)
(* Model of pipeline.py: the hierarchy normalisation `transform`, the      *)
(* InputItem properties it reads (parts, level, padded_item), the unit     *)
(* normaliser it calls and the row reader `read_input` that feeds it.      *)
(* Identifiers, descriptions, codes and units are strings; an absent value *)
(* (Python None) is the empty tuple, a present string s is the one-element *)
(* tuple <<s>>, and a numeric cell value is the pair <<"int", n>> or       *)
(* <<"float", m>> with m counted in thousandths.                           *)
(***************************************************************************)
EXTENDS Integers, Sequences, FiniteSets, TLC

VARIABLES items, idx, pc, output, desc_map, emitted_headers, origin,
          sheet, rpos, unit_in, unit_out, prev_output

vars == <<items, idx, pc, output, desc_map, emitted_headers, origin,
          sheet, rpos, unit_in, unit_out, prev_output>>

(* Everything outside the running transform call.                          *)
outside == <<sheet, rpos, unit_in, unit_out, prev_output>>

(* ---------------------------------------------------------------------- *)
(* Bounds and input pools                                                  *)
(* ---------------------------------------------------------------------- *)

MaxItems == 2

RawItems == {"1", "1.1", "1.2", "1.1.1", "1.1.2", "1.1.1.1", "1.1.1.2",
             "1.1.1.1.1", "12.04.01.02.01", "1.1.1.2.1.3", "10.03.04"}

Descs == {"A", "B"}

None == <<>>

Some(v) == <<v>>

PyInt(n) == <<"int", n>>

PyFloat(m) == <<"float", m>>

IsStr(v) == Len(v) = 1

IsNum(v) == Len(v) = 2

(* ---------------------------------------------------------------------- *)
(* String helpers (Python str methods used by the code)                    *)
(* ---------------------------------------------------------------------- *)

Ch(s, i) == SubSeq(s, i, i)

HasDot(s) == \E i \in 1..Len(s) : Ch(s, i) = "."

FirstDot(s) == CHOOSE i \in 1..Len(s) :
                  /\ Ch(s, i) = "."
                  /\ \A j \in 1..(i - 1) : Ch(s, j) # "."

RECURSIVE SplitDot(_)
SplitDot(s) ==
    IF ~HasDot(s) THEN <<s>>
    ELSE <<SubSeq(s, 1, FirstDot(s) - 1)>>
            \o SplitDot(SubSeq(s, FirstDot(s) + 1, Len(s)))

RECURSIVE ZFill(_, _)
ZFill(seg, w) == IF Len(seg) >= w THEN seg ELSE ZFill("0" \o seg, w)

RECURSIVE Join(_, _)
Join(ps, sep) ==
    IF Len(ps) = 0 THEN ""
    ELSE IF Len(ps) = 1 THEN ps[1]
    ELSE ps[1] \o sep \o Join(Tail(ps), sep)

IsSpace(c) == c \in {" ", "\t"}

RECURSIVE LStrip(_)
LStrip(s) == IF Len(s) > 0 /\ IsSpace(Ch(s, 1))
             THEN LStrip(SubSeq(s, 2, Len(s))) ELSE s

RECURSIVE RStrip(_)
RStrip(s) == IF Len(s) > 0 /\ IsSpace(Ch(s, Len(s)))
             THEN RStrip(SubSeq(s, 1, Len(s) - 1)) ELSE s

Strip(s) == RStrip(LStrip(s))

LowerLetters == "abcdefghijklmnopqrstuvwxyzêç"

UpperLetters == "ABCDEFGHIJKLMNOPQRSTUVWXYZÊÇ"

PosIn(c, alphabet) ==
    IF \E i \in 1..Len(alphabet) : Ch(alphabet, i) = c
    THEN CHOOSE i \in 1..Len(alphabet) : Ch(alphabet, i) = c
    ELSE 0

UpperCh(c) == IF PosIn(c, LowerLetters) > 0
              THEN Ch(UpperLetters, PosIn(c, LowerLetters)) ELSE c

LowerCh(c) == IF PosIn(c, UpperLetters) > 0
              THEN Ch(LowerLetters, PosIn(c, UpperLetters)) ELSE c

RECURSIVE Upper(_)
Upper(s) == IF Len(s) = 0 THEN ""
            ELSE UpperCh(Ch(s, 1)) \o Upper(SubSeq(s, 2, Len(s)))

RECURSIVE Lower(_)
Lower(s) == IF Len(s) = 0 THEN ""
            ELSE LowerCh(Ch(s, 1)) \o Lower(SubSeq(s, 2, Len(s)))

(* ---------------------------------------------------------------------- *)
(* Unit normalisation                                                      *)
(* ---------------------------------------------------------------------- *)

UNIT_MAP_BothWays ==
    [k \in {"M2", "M3", "M", "KG", "UND", "UN", "VB", "MÊS", "MES"} |->
        CASE k = "M2"  -> "m2"
          [] k = "M3"  -> "m3"
          [] k = "M"   -> "m"
          [] k = "KG"  -> "kg"
          [] k = "UND" -> "un"
          [] k = "UN"  -> "und"
          [] k = "VB"  -> "vb"
          [] k = "MÊS" -> "mes"
          [] k = "MES" -> "mes"]

UNIT_MAP == [k \in {"M2", "M3", "M", "KG", "UND", "VB", "MÊS", "MES"} |->
               CASE k = "M2"  -> "m2"
                 [] k = "M3"  -> "m3"
                 [] k = "M"   -> "m"
                 [] k = "KG"  -> "kg"
                 [] k = "UND" -> "un"
                 [] k = "VB"  -> "vb"
                 [] k = "MÊS" -> "mes"
                 [] k = "MES" -> "mes"]

normalise_unit_nostrip(raw) ==
    IF raw = None THEN None
    ELSE LET key == Upper(raw[1])
         IN  IF key \in DOMAIN UNIT_MAP
             THEN Some(UNIT_MAP[key])
             ELSE Some(Lower(raw[1]))

normalise_unit(raw) ==
    IF raw = None THEN None
    ELSE LET key == Upper(Strip(raw[1]))
         IN  IF key \in DOMAIN UNIT_MAP
             THEN Some(UNIT_MAP[key])
             ELSE Some(Lower(Strip(raw[1])))

(* ---------------------------------------------------------------------- *)
(* InputItem                                                               *)
(* ---------------------------------------------------------------------- *)

parts(item) ==
    LET segments == SplitDot(item.raw_item)
    IN  [k \in 1..Len(segments) |-> ZFill(segments[k], 3)]

level(item) == Len(parts(item))

padded_item(item) == Join(parts(item), ".")

GroupItem(raw, d) ==
    [raw_item |-> raw, description |-> d, code |-> None, unit |-> None,
     price |-> None, quantity |-> None, is_data |-> FALSE]

TaskItem(raw, d) ==
    [raw_item |-> raw, description |-> d,
     code |-> Some(IF d = "A" THEN "C1" ELSE "C2"),
     unit |-> Some(IF d = "A" THEN "UND" ELSE " Cx "),
     price |-> Some(IF d = "A" THEN 20 ELSE 15),
     quantity |-> Some(IF d = "A" THEN 3 ELSE 2),
     is_data |-> TRUE]

InputItems ==
    {GroupItem(r, d) : r \in RawItems, d \in Descs}
        \cup {TaskItem(r, d) : r \in RawItems, d \in Descs}

RECURSIVE SeqsUpTo(_, _)
SeqsUpTo(S, n) ==
    IF n = 0 THEN {<<>>}
    ELSE LET shorter == SeqsUpTo(S, n - 1)
         IN  shorter \cup {Append(s, x) : s \in {t \in shorter : Len(t) = n - 1},
                                          x \in S}

(* ---------------------------------------------------------------------- *)
(* OutputRow                                                               *)
(* ---------------------------------------------------------------------- *)

HeaderRow(id, d) ==
    [item |-> id, code |-> None, description |-> d, unit |-> None,
     quantity |-> None, price |-> None]

TaskRowBlank(id, item) ==
    [item |-> id, code |-> None, description |-> item.description,
     unit |-> normalise_unit(item.unit), quantity |-> item.quantity,
     price |-> item.price]

TaskRow(id, item) ==
    [item |-> id, code |-> item.code, description |-> item.description,
     unit |-> normalise_unit(item.unit), quantity |-> item.quantity,
     price |-> item.price]

(* ---------------------------------------------------------------------- *)
(* transform: identifiers built by the branches                            *)
(* ---------------------------------------------------------------------- *)

L2Header(item) == padded_item(item) \o ".001"

L2TaskItem(item) == L2Header(item) \o ".001"

ParentL2(item) == Join(SubSeq(parts(item), 1, 2), ".")

L3Header(item) == ParentL2(item) \o ".001"

L3SuffixCounter(item) == "001"

L3Suffix(item) == parts(item)[3]

L3TaskItemAppended(item) == padded_item(item) \o ".001"

L3TaskItem(item) == L3Header(item) \o "." \o L3Suffix(item)

L4ItemRenumbered(item) == Join(SubSeq(parts(item), 1, 3), ".") \o ".001"

L4Item(item) == padded_item(item)

DeepRestFrom4(item) == Join(SubSeq(parts(item), 5, Len(parts(item))), "")

DeepRest(item) == Join(SubSeq(parts(item), 4, Len(parts(item))), "")

DeepItemDotted(item) == padded_item(item)

DeepItem(item) ==
    Join(SubSeq(parts(item), 1, 3), ".") \o "." \o DeepRest(item)

DescGetDefault(map, key, default) == default

DescGet(map, key, default) ==
    IF key \in DOMAIN map THEN map[key] ELSE default

DescPut(map, key, d) ==
    [k \in DOMAIN map \cup {key} |-> IF k = key THEN d ELSE map[k]]

MarkEmittedDropped(emitted, h) == emitted

MarkEmitted(emitted, h) == emitted \cup {h}

PrependRows(out, rows) == rows \o out

AppendRows(out, rows) == out \o rows

(* ---------------------------------------------------------------------- *)
(* transform as a state machine: one action per branch of the loop body    *)
(* ---------------------------------------------------------------------- *)

EmptyMap == [k \in {} |-> ""]

EmptySheet == [max_column |-> 0, start_row |-> 1, rows |-> <<>>]

(* Locals of a transform call at entry.                                    *)
TransformEntry ==
    /\ idx = 0
    /\ output = <<>>
    /\ desc_map = EmptyMap
    /\ emitted_headers = {}
    /\ origin = <<>>

Init ==
    /\ items \in SeqsUpTo(InputItems, MaxItems)
    /\ pc = "loop"
    /\ TransformEntry
    /\ sheet = EmptySheet
    /\ rpos = 0
    /\ unit_in = None
    /\ unit_out = None
    /\ prev_output = None

Current == items[idx + 1]

InLoop == pc = "loop" /\ idx < Len(items)

Real == [src |-> idx + 1, syn |-> FALSE]

Synth == [src |-> idx + 1, syn |-> TRUE]

(* Shared tail of every branch: store the description, advance the loop.   *)
Advance ==
    /\ desc_map' = DescPut(desc_map, padded_item(Current), Current.description)
    /\ idx' = idx + 1
    /\ UNCHANGED <<items, pc, outside>>

(* normalise_unit calls raw.strip(): a unit that is not a string raises    *)
(* AttributeError out of transform, and the partial output is lost.        *)
UnitRaises(item) == IsNum(item.unit)

Raise ==
    /\ pc' = "raised"
    /\ UNCHANGED <<items, idx, output, desc_map, emitted_headers, origin,
                   outside>>

Level1 ==
    /\ InLoop
    /\ level(Current) = 1
    /\ output' = AppendRows(output,
                    <<HeaderRow(padded_item(Current), Current.description)>>)
    /\ origin' = origin \o <<Real>>
    /\ UNCHANGED emitted_headers
    /\ Advance

L2Group ==
    /\ InLoop
    /\ level(Current) = 2
    /\ ~Current.is_data
    /\ output' = AppendRows(output,
                    <<HeaderRow(padded_item(Current), Current.description)>>)
    /\ origin' = origin \o <<Real>>
    /\ UNCHANGED emitted_headers
    /\ Advance

L2Task ==
    /\ InLoop
    /\ level(Current) = 2
    /\ Current.is_data
    /\ IF UnitRaises(Current) THEN Raise
       ELSE
       /\ LET l3_header == L2Header(Current)
              task == TaskRow(L2TaskItem(Current), Current)
          IN  IF l3_header \notin emitted_headers
              THEN /\ output' = AppendRows(output,
                                   <<HeaderRow(l3_header, Current.description), task>>)
                   /\ origin' = origin \o <<Synth, Real>>
                   /\ emitted_headers' = MarkEmitted(emitted_headers, l3_header)
              ELSE /\ output' = AppendRows(output, <<task>>)
                   /\ origin' = origin \o <<Real>>
                   /\ UNCHANGED emitted_headers
       /\ Advance

L3Group ==
    /\ InLoop
    /\ level(Current) = 3
    /\ ~Current.is_data
    /\ output' = AppendRows(output,
                    <<HeaderRow(padded_item(Current), Current.description)>>)
    /\ origin' = origin \o <<Real>>
    /\ UNCHANGED emitted_headers
    /\ Advance

L3Task ==
    /\ InLoop
    /\ level(Current) = 3
    /\ Current.is_data
    /\ IF UnitRaises(Current) THEN Raise
       ELSE
       /\ LET l3_header == L3Header(Current)
              task == TaskRow(L3TaskItem(Current), Current)
              stored == DescPut(desc_map, padded_item(Current), Current.description)
              parent_desc == DescGet(stored, ParentL2(Current), Current.description)
          IN  IF l3_header \notin emitted_headers
              THEN /\ output' = AppendRows(output,
                                   <<HeaderRow(l3_header, parent_desc), task>>)
                   /\ origin' = origin \o <<Synth, Real>>
                   /\ emitted_headers' = MarkEmitted(emitted_headers, l3_header)
              ELSE /\ output' = AppendRows(output, <<task>>)
                   /\ origin' = origin \o <<Real>>
                   /\ UNCHANGED emitted_headers
       /\ Advance

Level4 ==
    /\ InLoop
    /\ level(Current) = 4
    /\ IF UnitRaises(Current) THEN Raise
       ELSE
       /\ output' = AppendRows(output, <<TaskRow(L4Item(Current), Current)>>)
       /\ origin' = origin \o <<Real>>
       /\ UNCHANGED emitted_headers
       /\ Advance

Deep ==
    /\ InLoop
    /\ level(Current) >= 5
    /\ IF UnitRaises(Current) THEN Raise
       ELSE
       /\ output' = AppendRows(output, <<TaskRow(DeepItem(Current), Current)>>)
       /\ origin' = origin \o <<Real>>
       /\ UNCHANGED emitted_headers
       /\ Advance

Return ==
    /\ pc = "loop"
    /\ idx = Len(items)
    /\ pc' = "done"
    /\ UNCHANGED <<items, idx, output, desc_map, emitted_headers, origin,
                   outside>>

Next ==
    \/ Level1
    \/ L2Group
    \/ L2Task
    \/ L3Group
    \/ L3Task
    \/ Level4
    \/ Deep
    \/ Return

Spec == Init /\ [][Next]_vars

(* ---------------------------------------------------------------------- *)
(* normalise_unit called on its own                                        *)
(* ---------------------------------------------------------------------- *)

UnitCores == {"M2", "m2", "M3", "m3", "M", "m", "KG", "Kg", "kg", "UND",
              "und", "Und", "VB", "vb", "MÊS", "mês", "MES", "mes", "CX",
              "cx", "Pç", "un", "2", ""}

LeftPads == {"", " ", "  "}

RightPads == {"", " ", "\t"}

UnitInputs ==
    {None, PyInt(1), PyInt(0), PyFloat(2500)}
        \cup {Some(l \o c \o r) : l \in LeftPads, c \in UnitCores, r \in RightPads}

InitUnit ==
    /\ unit_in \in UnitInputs
    /\ unit_out = None
    /\ pc = "call"
    /\ items = <<>>
    /\ TransformEntry
    /\ sheet = EmptySheet
    /\ rpos = 0
    /\ prev_output = None

CallNormaliseUnit ==
    /\ pc = "call"
    /\ IF IsNum(unit_in)
       THEN pc' = "raised" /\ UNCHANGED unit_out
       ELSE pc' = "returned" /\ unit_out' = normalise_unit(unit_in)
    /\ UNCHANGED <<items, idx, output, desc_map, emitted_headers, origin,
                   sheet, rpos, unit_in, prev_output>>

NextUnit == CallNormaliseUnit

SpecUnit == InitUnit /\ [][NextUnit]_vars

(* ---------------------------------------------------------------------- *)
(* Python conversions used by read_input                                   *)
(* ---------------------------------------------------------------------- *)

Digits == "0123456789"

RECURSIVE IntStr(_)
IntStr(n) == IF n < 10 THEN Ch(Digits, n + 1)
             ELSE IntStr(n \div 10) \o Ch(Digits, (n % 10) + 1)

RECURSIVE DropZeros(_)
DropZeros(s) == IF Len(s) > 1 /\ Ch(s, Len(s)) = "0"
                THEN DropZeros(SubSeq(s, 1, Len(s) - 1)) ELSE s

(* str() of a float given in thousandths: 1500 is "1.5", 2000 is "2.0".    *)
FloatStr(m) == IntStr(m \div 1000) \o "." \o DropZeros(ZFill(IntStr(m % 1000), 3))

(* str(v) *)
PyStr(v) ==
    IF v = None THEN "None"
    ELSE IF IsStr(v) THEN v[1]
    ELSE IF v[1] = "int" THEN IntStr(v[2])
    ELSE FloatStr(v[2])

(* bool(v) *)
Truthy(v) ==
    IF v = None THEN FALSE
    ELSE IF IsStr(v) THEN Len(v[1]) > 0
    ELSE v[2] # 0

RECURSIVE DigitsVal(_)
DigitsVal(s) == IF Len(s) = 0 THEN 0
                ELSE DigitsVal(SubSeq(s, 1, Len(s) - 1)) * 10
                        + (PosIn(Ch(s, Len(s)), Digits) - 1)

IsDecimal(t) ==
    /\ \A i \in 1..Len(t) : PosIn(Ch(t, i), Digits) > 0 \/ Ch(t, i) = "."
    /\ \E i \in 1..Len(t) : PosIn(Ch(t, i), Digits) > 0
    /\ Cardinality({i \in 1..Len(t) : Ch(t, i) = "."}) <= 1

(* float(s) of a string, in thousandths; None stands for ValueError.  Only *)
(* plain decimals of at most three decimals are parsed here.               *)
ParseFloat(s) ==
    LET t == Strip(s)
    IN  IF ~IsDecimal(t) THEN None
        ELSE IF ~HasDot(t) THEN Some(DigitsVal(t) * 1000)
        ELSE LET whole == SubSeq(t, 1, FirstDot(t) - 1)
                 frac == SubSeq(SubSeq(t, FirstDot(t) + 1, Len(t)) \o "000", 1, 3)
             IN  Some(DigitsVal(whole) * 1000 + DigitsVal(frac))

(* float(v) inside try/except (ValueError, TypeError): None when it fails. *)
FloatOf(v) ==
    IF IsStr(v) THEN ParseFloat(v[1])
    ELSE IF v[1] = "int" THEN Some(v[2] * 1000)
    ELSE Some(v[2])

(* round(x, 2) on thousandths (no input here lies on a half).              *)
Round2(m) == ((m + 5) \div 10) * 10

(* ---------------------------------------------------------------------- *)
(* read_input                                                              *)
(* ---------------------------------------------------------------------- *)

MaxRows == 2

mapping == [item_col |-> 0, desc_col |-> 1, code_col |-> 2, unit_col |-> 3,
            price_col |-> 4, qty_col |-> 5]

Max(S) == CHOOSE x \in S : \A y \in S : y <= x

max_idx == Max({mapping.item_col, mapping.desc_col, mapping.code_col,
                mapping.unit_col, mapping.price_col, mapping.qty_col})

Cell(row, col) == row[col + 1]

ItemStrUntrimmed(cell) == PyStr(cell)

ItemStr(cell) == Strip(PyStr(cell))

HasValueNoTrim(cell) == cell # None /\ PyStr(cell) # ""

HasValue(cell) == cell # None /\ Strip(PyStr(cell)) # ""

StripIfStr(cell) ==
    IF Truthy(cell) /\ IsStr(cell) THEN Some(Strip(cell[1])) ELSE cell

ReadPriceAlways(cell, is_data) ==
    IF Truthy(cell) THEN FloatOf(cell) ELSE None

ReadPrice(cell, is_data) ==
    IF is_data /\ Truthy(cell) THEN FloatOf(cell) ELSE None

ReadQty(cell, is_data) ==
    IF is_data /\ Truthy(cell)
    THEN IF FloatOf(cell) = None THEN None ELSE Some(Round2(FloatOf(cell)[1]))
    ELSE None

ReadItem(row) ==
    LET desc_val == Cell(row, mapping.desc_col)
        code == Cell(row, mapping.code_col)
        unit == Cell(row, mapping.unit_col)
        is_data == HasValue(code) /\ HasValue(unit)
    IN  [raw_item |-> ItemStr(Cell(row, mapping.item_col)),
         description |-> IF Truthy(desc_val) THEN Strip(PyStr(desc_val)) ELSE "",
         code |-> IF is_data THEN StripIfStr(code) ELSE None,
         unit |-> IF is_data THEN StripIfStr(unit) ELSE None,
         price |-> ReadPrice(Cell(row, mapping.price_col), is_data),
         quantity |-> ReadQty(Cell(row, mapping.qty_col), is_data),
         is_data |-> is_data]

(* Worksheet rows used as input: <<item, desc, code, unit, price, qty>>.   *)
TaskCells(item) ==
    <<item, Some("A"), Some("C1"), Some("M2"), PyFloat(10000), PyFloat(5000)>>

GroupCells(item) == <<item, Some("B"), None, None, None, None>>

CodeUnitCells(code, unit) ==
    <<Some("1.1.1.2"), Some("A"), code, unit, PyFloat(10000), PyFloat(5000)>>

PriceQtyCells(price, qty) ==
    <<Some("1.1.1.2"), Some(" A "), Some("C1"), Some("M2"), price, qty>>

SheetRows ==
    {TaskCells(None), GroupCells(Some(" ")), GroupCells(Some("1")),
     TaskCells(PyInt(2)), GroupCells(Some("1.1")), TaskCells(Some("1.1")),
     GroupCells(Some("1.1.1")), TaskCells(Some("1.1.1")),
     TaskCells(Some(" 1.1.1.1 ")), TaskCells(Some("1.1.1.1.1"))}
    \cup
    {CodeUnitCells(None, Some("M2")), CodeUnitCells(Some(""), Some("M2")),
     CodeUnitCells(Some("  "), Some("M2")), CodeUnitCells(Some("C1"), None),
     CodeUnitCells(Some("C1"), Some(" ")),
     CodeUnitCells(Some(" C1 "), Some(" m2 ")),
     CodeUnitCells(PyInt(12345), PyInt(2)),
     CodeUnitCells(PyFloat(3140), PyFloat(1500))}
    \cup
    {PriceQtyCells(None, Some("x")), PriceQtyCells(PyInt(0), PyFloat(3142)),
     PriceQtyCells(Some("abc"), None), PriceQtyCells(Some("10"), Some(" 2.5 "))}
    \cup
    {<<Some("1.2"), Some("B"), None, None, PyFloat(10000), PyFloat(5000)>>,
     <<Some("1.2"), None, None, None, None, None>>,
     <<Some("1.2"), PyInt(7), None, None, None, None>>}

(* A worksheet: every row has max_column cells.                            *)
Sheet(w, first, rows) ==
    [max_column |-> w, start_row |-> first,
     rows |-> [k \in 1..Len(rows) |-> SubSeq(rows[k], 1, w)]]

SheetShapes == {<<6, 1>>, <<6, 2>>, <<5, 1>>}

InitRead ==
    /\ \E shape \in SheetShapes, rows \in SeqsUpTo(SheetRows, MaxRows) :
          sheet = Sheet(shape[1], shape[2], rows)
    /\ rpos = sheet.start_row - 1
    /\ items = <<>>
    /\ pc = "read"
    /\ TransformEntry
    /\ unit_in = None
    /\ unit_out = None
    /\ prev_output = None

CurRow == sheet.rows[rpos + 1]

InRead == pc = "read" /\ rpos < Len(sheet.rows)

NextRow ==
    /\ rpos' = rpos + 1
    /\ UNCHANGED <<idx, pc, output, desc_map, emitted_headers, origin,
                   sheet, unit_in, unit_out, prev_output>>

SkipShortRow ==
    /\ InRead
    /\ Len(CurRow) <= max_idx
    /\ UNCHANGED items
    /\ NextRow

SkipNoItem ==
    /\ InRead
    /\ Len(CurRow) > max_idx
    /\ Cell(CurRow, mapping.item_col) = None
    /\ UNCHANGED items
    /\ NextRow

SkipBlankItem ==
    /\ InRead
    /\ Len(CurRow) > max_idx
    /\ Cell(CurRow, mapping.item_col) # None
    /\ ItemStr(Cell(CurRow, mapping.item_col)) = ""
    /\ UNCHANGED items
    /\ NextRow

AppendItem ==
    /\ InRead
    /\ Len(CurRow) > max_idx
    /\ Cell(CurRow, mapping.item_col) # None
    /\ ItemStr(Cell(CurRow, mapping.item_col)) # ""
    /\ items' = Append(items, ReadItem(CurRow))
    /\ NextRow

(* read_input returns and main hands the records to transform.             *)
ReadReturn ==
    /\ pc = "read"
    /\ rpos >= Len(sheet.rows)
    /\ pc' = "loop"
    /\ UNCHANGED <<items, idx, output, desc_map, emitted_headers, origin,
                   outside>>

NextRead ==
    \/ SkipShortRow
    \/ SkipNoItem
    \/ SkipBlankItem
    \/ AppendItem
    \/ ReadReturn
    \/ Next

SpecRead == InitRead /\ [][NextRead]_vars

(* ---------------------------------------------------------------------- *)
(* transform applied again to its own output                               *)
(* ---------------------------------------------------------------------- *)

(* An output row taken as an input record: same identifier and fields, a   *)
(* task exactly when code and unit are present.                            *)
AsInput(row) ==
    [raw_item |-> row.item, description |-> row.description,
     code |-> row.code, unit |-> row.unit, price |-> row.price,
     quantity |-> row.quantity,
     is_data |-> (row.code # None /\ row.unit # None)]

Rerun ==
    /\ pc = "done"
    /\ prev_output = None
    /\ prev_output' = Some(output)
    /\ items' = [k \in 1..Len(output) |-> AsInput(output[k])]
    /\ pc' = "loop"
    /\ idx' = 0
    /\ output' = <<>>
    /\ desc_map' = EmptyMap
    /\ emitted_headers' = {}
    /\ origin' = <<>>
    /\ UNCHANGED <<sheet, rpos, unit_in, unit_out>>

NextTwice ==
    \/ Next
    \/ Rerun

SpecTwice == Init /\ [][NextTwice]_vars

TypeOK ==
    /\ idx \in 0..Len(items)
    /\ pc \in {"read", "loop", "done", "raised", "call", "returned"}
    /\ Len(origin) = Len(output)

(* ---------------------------------------------------------------------- *)
(* Vocabulary of the properties                                            *)
(* ---------------------------------------------------------------------- *)

Rows == 1..Len(output)

Processed == 1..idx

RowsOf(i) == {k \in Rows : origin[k].src = i}

OwnRows(i) == {k \in RowsOf(i) : ~origin[k].syn}

Segs(k) == SplitDot(output[k].item)

IsTask(i) == items[i].is_data

TaskIdx == {i \in 1..Len(items) : IsTask(i)}

CodedOut == {k \in Rows : output[k].code # None}

SameTask(k, i) ==
    /\ origin[k].src = i
    /\ output[k].code = items[i].code
    /\ output[k].description = items[i].description

(* The level-3 identifier a task of level 2, 3 or 4 is placed under.       *)
Container(i) ==
    CASE level(items[i]) = 2 -> L2Header(items[i])
      [] level(items[i]) = 3 -> L3Header(items[i])
      [] OTHER -> Join(SubSeq(parts(items[i]), 1, 3), ".")

Routed(i) == IsTask(i) /\ level(items[i]) \in 2..4

Rank(i) == Cardinality({j \in 1..i : Routed(j) /\ Container(j) = Container(i)})

Pad3(n) == ZFill(Ch("0123456789", n + 1), 3)

LastRawSegment(i) ==
    SplitDot(items[i].raw_item)[Len(SplitDot(items[i].raw_item))]

(* ---------------------------------------------------------------------- *)
(* C1                                                                      *)
(* ---------------------------------------------------------------------- *)

C3_UniqueTaskItems ==
    (\A i, j \in 1..Len(items) :
        padded_item(items[i]) = padded_item(items[j]) => i = j)
    => \A k1, k2 \in CodedOut :
          output[k1].item = output[k2].item => k1 = k2

(* ---------------------------------------------------------------------- *)
(* C4                                                                      *)
(* ---------------------------------------------------------------------- *)

(* C4: every record with is_data = false, at any level, yields exactly one *)
(* output row, whose item is the record's padded_item and whose            *)
(* description is the record's description.                                *)
C4_GroupsCarriedUnchanged ==
    \A i \in Processed : ~IsTask(i) =>
        /\ Cardinality(RowsOf(i)) = 1
        /\ \A k \in RowsOf(i) :
              /\ output[k].item = padded_item(items[i])
              /\ output[k].description = items[i].description

(* ---------------------------------------------------------------------- *)
(* C5                                                                      *)
(* ---------------------------------------------------------------------- *)

(* C5: a level-4 task yields exactly one row, not synthetic, whose item is *)
(* the zero-padded identifier unchanged ("1.1.1.2" gives                   *)
(* "001.001.001.002"); no header is added for it, whether or not its       *)
(* level-3 ancestor is in the input.                                       *)
C5_Level4TaskKept ==
    \A i \in Processed : (IsTask(i) /\ level(items[i]) = 4) =>
        /\ Cardinality(RowsOf(i)) = 1
        /\ \A k \in RowsOf(i) :
              /\ ~origin[k].syn
              /\ output[k].code = items[i].code
              /\ Segs(k) = [m \in 1..4 |->
                               ZFill(SplitDot(items[i].raw_item)[m], 3)]
              /\ items[i].raw_item = "1.1.1.2" =>
                    output[k].item = "001.001.001.002"

C5_Witness ==
    /\ pc = "done"
    /\ Len(items) = 2
    /\ \E i \in Processed :
          /\ IsTask(i)
          /\ items[i].raw_item = "1.1.1.2"
          /\ \A j \in 1..Len(items) : padded_item(items[j]) # "001.001.001"
          /\ \A k \in Rows : output[k].item # "001.001.001"

(* ---------------------------------------------------------------------- *)
(* C6                                                                      *)
(* ---------------------------------------------------------------------- *)

FirstL2TaskUnder(i, j) ==
    /\ IsTask(i) /\ level(items[i]) = 2
    /\ j < i /\ ~IsTask(j) /\ level(items[j]) = 1
    /\ padded_item(items[j]) = parts(items[i])[1]
    /\ \A h \in 1..(i - 1) : h # j => level(items[h]) > 2

(* C6: the first level-2 task under a level-1 group P yields, in order, a  *)
(* synthetic header P.001 and a synthetic header P.001.001, both with P's  *)
(* description, then the task at P.001.001.001; so [group 1, task 1.1]     *)
(* gives the 4 rows 001, 001.001, 001.001.001, 001.001.001.001.            *)
C6_L2TaskGetsTwoHeaders ==
    \A i, j \in Processed : FirstL2TaskUnder(i, j) =>
        LET P == padded_item(items[j])
        IN  /\ \E k \in Rows :
                  /\ k + 2 \in Rows
                  /\ output[k].item = P \o ".001"
                  /\ output[k].description = items[j].description
                  /\ output[k + 1].item = P \o ".001.001"
                  /\ output[k + 1].description = items[j].description
                  /\ output[k + 2].item = P \o ".001.001.001"
                  /\ SameTask(k + 2, i)
            /\ (Len(items) = 2 /\ items[i].raw_item = "1.1" /\ pc = "done") =>
                  [k \in Rows |-> output[k].item]
                     = <<"001", "001.001", "001.001.001", "001.001.001.001">>

(* ---------------------------------------------------------------------- *)
(* C7                                                                      *)
(* ---------------------------------------------------------------------- *)

(* C7: a task at level >= 5 yields one row whose item has 4 segments: the  *)
(* first three are the padded parts p0, p1, p2 and the fourth is the       *)
(* padded parts p3..pn written one after another without dots (longer than *)
(* 3 characters); "12.04.01.02.01" gives "012.004.001.002001"; code,       *)
(* description, quantity and price are the record's.                       *)
C7_DeepTaskFlattened ==
    \A i \in Processed : (IsTask(i) /\ level(items[i]) >= 5) =>
        LET p == parts(items[i])
        IN  /\ Cardinality(RowsOf(i)) = 1
            /\ \A k \in RowsOf(i) :
                  /\ Len(Segs(k)) = 4
                  /\ \A m \in 1..3 : Segs(k)[m] = p[m]
                  /\ Len(Segs(k)[4]) = 3 * (Len(p) - 3)
                  /\ Len(Segs(k)[4]) > 3
                  /\ \A m \in 4..Len(p) :
                        SubSeq(Segs(k)[4], 3 * (m - 4) + 1, 3 * (m - 3)) = p[m]
                  /\ output[k].code = items[i].code
                  /\ output[k].description = items[i].description
                  /\ output[k].quantity = items[i].quantity
                  /\ output[k].price = items[i].price
                  /\ items[i].raw_item = "12.04.01.02.01" =>
                        output[k].item = "012.004.001.002001"

C7_Witness ==
    /\ pc = "done"
    /\ \E i, j \in Processed :
          /\ IsTask(i) /\ items[i].raw_item = "12.04.01.02.01"
          /\ IsTask(j) /\ level(items[j]) = 6
          /\ \E k \in RowsOf(i) : output[k].item = "012.004.001.002001"

(* ---------------------------------------------------------------------- *)
(* C8                                                                      *)
(* ---------------------------------------------------------------------- *)

C9_SyntheticHeaderOnce ==
    \A k1, k2 \in Rows :
        (origin[k1].syn /\ origin[k2].syn
            /\ output[k1].item = output[k2].item) => k1 = k2

C9_Witness ==
    /\ pc = "done"
    /\ \E i, j \in Processed :
          /\ i < j
          /\ IsTask(i) /\ level(items[i]) = 2
          /\ IsTask(j) /\ level(items[j]) = 3
          /\ Container(i) = Container(j)
          /\ Cardinality({k \in Rows : origin[k].syn}) = 1

(* ---------------------------------------------------------------------- *)
(* C10                                                                     *)
(* ---------------------------------------------------------------------- *)

(* C10: rows appear in the order of the records they derive from, every    *)
(* processed record has exactly one row of its own, and every synthetic    *)
(* header is immediately followed by the row of the task that caused it,   *)
(* which is the first task referring to that header.                       *)
C10_OutputFollowsInput ==
    /\ \A k1, k2 \in Rows : k1 < k2 => origin[k1].src <= origin[k2].src
    /\ \A i \in Processed : Cardinality(OwnRows(i)) = 1
    /\ \A k \in Rows : origin[k].syn =>
          /\ k + 1 \in Rows
          /\ origin[k + 1].src = origin[k].src
          /\ ~origin[k + 1].syn
          /\ output[k + 1].code # None
          /\ Container(origin[k].src) = output[k].item
          /\ \A j \in 1..(origin[k].src - 1) :
                ~(IsTask(j) /\ level(items[j]) \in 2..3
                    /\ Container(j) = output[k].item)

C10_Witness ==
    /\ pc = "done"
    /\ Len(items) = 2
    /\ \E k \in Rows : k > 1 /\ origin[k].syn /\ origin[k - 1].src = 1

(* ---------------------------------------------------------------------- *)
(* C11                                                                     *)
(* ---------------------------------------------------------------------- *)

CanonicalOf(c) ==
    CASE c \in {"M2", "m2"} -> "m2"
      [] c \in {"M3", "m3"} -> "m3"
      [] c \in {"M", "m"} -> "m"
      [] c \in {"KG", "Kg", "kg"} -> "kg"
      [] c \in {"UND", "und", "Und"} -> "un"
      [] c \in {"VB", "vb"} -> "vb"
      [] c \in {"MÊS", "mês", "MES", "mes"} -> "mes"
      [] c \in {"CX", "cx"} -> "cx"
      [] c = "Pç" -> "pç"
      [] OTHER -> c

(* C11: on a string, normalise_unit returns the canonical value of the     *)
(* table when the trimmed, upper-cased input is one of its 8 keys, and the *)
(* trimmed input in lower case otherwise ("  M2 " gives "m2", "Und" gives  *)
(* "un", "CX" gives "cx"); on an absent input it returns absent.           *)
C11_UnitTable ==
    pc = "returned" =>
        /\ unit_in = None => unit_out = None
        /\ \A l \in LeftPads, c \in UnitCores, r \in RightPads :
              unit_in = Some(l \o c \o r) => unit_out = Some(CanonicalOf(c))

C11_Witness ==
    /\ pc = "returned"
    /\ unit_in = Some("  MÊS\t")
    /\ unit_out = Some("mes")

(* ---------------------------------------------------------------------- *)
(* C12                                                                     *)
(* ---------------------------------------------------------------------- *)

(* C12: normalise_unit never raises on an integer or float input and       *)
(* returns a string for it (normalise_unit(1) returns "1").                *)
C12_NumericUnitTolerated ==
    /\ pc # "raised"
    /\ (pc = "returned" /\ IsNum(unit_in)) => IsStr(unit_out)
    /\ (pc = "returned" /\ unit_in = PyInt(1)) => unit_out = Some("1")

(* ---------------------------------------------------------------------- *)
(* Vocabulary of the read_input properties                                 *)
(* ---------------------------------------------------------------------- *)

BlankCells == {None, Some(""), Some(" "), Some("  ")}

(* A row is being turned into a record by this step.                       *)
Appending == pc = "read" /\ Len(items') = Len(items) + 1

Appended == items'[Len(items')]

(* Rows of the sheet, from start_row on, that read_input has gone through. *)
Scanned == {k \in sheet.start_row..Len(sheet.rows) : k <= rpos}

NonBlankItemRows == {k \in Scanned : sheet.rows[k][1] \notin BlankCells}

WideItemRows == {k \in NonBlankItemRows : Len(sheet.rows[k]) >= 6}

RankIn(S, k) == Cardinality({h \in S : h <= k})

(* ---------------------------------------------------------------------- *)
(* C13                                                                     *)
(* ---------------------------------------------------------------------- *)

(* C13: whatever the typing of the code and unit cells, every task record  *)
(* read has a trimmed string as code and as unit, and transform on the     *)
(* records read never raises and yields string codes.                      *)
C13_CodeAndUnitCoerced ==
    /\ \A j \in 1..Len(items) : items[j].is_data =>
          /\ IsStr(items[j].code) /\ IsStr(items[j].unit)
          /\ Strip(items[j].code[1]) = items[j].code[1]
          /\ Strip(items[j].unit[1]) = items[j].unit[1]
    /\ pc # "raised"
    /\ \A k \in Rows : output[k].code # None => IsStr(output[k].code)

(* ---------------------------------------------------------------------- *)
(* C14                                                                     *)
(* ---------------------------------------------------------------------- *)

(* C14: the record read from a row has is_data = true exactly when the     *)
(* row's code cell and unit cell are both present and not blank (absent,   *)
(* "" and all-space cells count the same), and its code and unit are       *)
(* absent whenever is_data is false.                                       *)
C14_IsDataIffCodeAndUnit ==
    [][Appending =>
         /\ Appended.is_data = (CurRow[3] \notin BlankCells
                                   /\ CurRow[4] \notin BlankCells)
         /\ ~Appended.is_data =>
               (Appended.code = None /\ Appended.unit = None)
         /\ Appended.is_data =>
               (Appended.code # None /\ Appended.unit # None)]_vars

C14_Witness ==
    /\ pc = "loop"
    /\ sheet = Sheet(6, 1, <<CodeUnitCells(Some("C1"), Some(" ")),
                            CodeUnitCells(PyInt(12345), PyInt(2))>>)
    /\ Len(items) = 2
    /\ ~items[1].is_data /\ items[1].code = None
    /\ items[2].is_data

(* ---------------------------------------------------------------------- *)
(* C15                                                                     *)
(* ---------------------------------------------------------------------- *)

(* C15: price and quantity are numbers only for a task row whose raw value *)
(* is present and truthy; an unparsable raw value ("abc", "x") is stored   *)
(* as absent without an error, "10" is read as 10.0 and 3.142 is rounded   *)
(* to 3.14; a non-task row has both absent; and the row is appended in     *)
(* every one of these cases.                                               *)
C15_PriceAndQuantityParsed ==
    [][(InRead /\ Len(CurRow) >= 6 /\ CurRow[1] \notin BlankCells) =>
         /\ pc' = "read"
         /\ Appending
         /\ ~Appended.is_data =>
               (Appended.price = None /\ Appended.quantity = None)
         /\ CurRow[5] \in {None, Some(""), PyInt(0), PyFloat(0), Some("abc")}
               => Appended.price = None
         /\ CurRow[6] \in {None, Some(""), PyInt(0), PyFloat(0), Some("x")}
               => Appended.quantity = None
         /\ Appended.is_data =>
               /\ CurRow[5] = Some("10") => Appended.price = Some(10000)
               /\ CurRow[5] = PyFloat(10000) => Appended.price = Some(10000)
               /\ CurRow[6] = PyFloat(3142) => Appended.quantity = Some(3140)
               /\ CurRow[6] = Some(" 2.5 ") => Appended.quantity = Some(2500)
               /\ CurRow[6] = PyFloat(5000) => Appended.quantity = Some(5000)]_vars

C15_Witness ==
    /\ pc = "loop"
    /\ sheet = Sheet(6, 1, <<PriceQtyCells(Some("abc"), None),
                            PriceQtyCells(Some("10"), Some(" 2.5 "))>>)
    /\ Len(items) = 2
    /\ items[1].is_data /\ items[1].price = None /\ items[1].quantity = None
    /\ items[2].price = Some(10000) /\ items[2].quantity = Some(2500)

(* ---------------------------------------------------------------------- *)
(* C16                                                                     *)
(* ---------------------------------------------------------------------- *)

(* C16 as stated: the records read are exactly, in source order, the rows  *)
(* from start_row on whose item cell is present and not blank; no such row *)
(* is dropped for any other reason.                                        *)
C16_PureItemFilter ==
    /\ Len(items) = Cardinality(NonBlankItemRows)
    /\ \A k \in NonBlankItemRows :
          RankIn(NonBlankItemRows, k) <= Len(items) =>
             items[RankIn(NonBlankItemRows, k)].raw_item
                = Strip(PyStr(sheet.rows[k][1]))

(* C16 amended: the records read are exactly, in source order, the rows    *)
(* from start_row on whose item cell is present and not blank and that     *)
(* have more cells than the largest configured column index; a row with    *)
(* too few cells yields no record even when its item is not blank.         *)
C16_ItemAndWidthFilter ==
    /\ Len(items) = Cardinality(WideItemRows)
    /\ \A k \in WideItemRows :
          /\ items[RankIn(WideItemRows, k)].raw_item
                = Strip(PyStr(sheet.rows[k][1]))
          /\ sheet.rows[k][1] = Some(" 1.1.1.1 ") =>
                items[RankIn(WideItemRows, k)].raw_item = "1.1.1.1"
          /\ sheet.rows[k][1] = PyInt(2) =>
                items[RankIn(WideItemRows, k)].raw_item = "2"

C16_Witness ==
    /\ pc = "loop"
    /\ sheet.max_column = 5
    /\ Len(sheet.rows) = 2
    /\ sheet.rows[1][1] = Some("1.1")
    /\ sheet.rows[2][1] = PyInt(2)
    /\ items = <<>>

(* ---------------------------------------------------------------------- *)
(* C17                                                                     *)
(* ---------------------------------------------------------------------- *)

GroupsNamed(id, upto) ==
    {j \in 1..upto : ~IsTask(j) /\ padded_item(items[j]) = id}

L3SynRows == {k \in Rows : origin[k].syn /\ level(items[origin[k].src]) = 3}

C18_GroupRowMarksEmitted ==
    /\ \A k1, k2 \in Rows :
          (k1 < k2 /\ ~origin[k1].syn /\ ~IsTask(origin[k1].src)
              /\ origin[k2].syn) => output[k1].item # output[k2].item
    /\ (\A i, j \in 1..Len(items) :
           (~IsTask(i) /\ ~IsTask(j)
               /\ padded_item(items[i]) = padded_item(items[j])) => i = j)
       => \A k1, k2 \in Rows :
             (output[k1].code = None /\ output[k2].code = None
                 /\ level(items[origin[k1].src]) \in 2..3
                 /\ level(items[origin[k2].src]) \in 2..3
                 /\ output[k1].item = output[k2].item) => k1 = k2

(* ---------------------------------------------------------------------- *)
(* C19                                                                     *)
(* ---------------------------------------------------------------------- *)

(* C19: a level-3 task a.b.c is emitted at a.b.001.c, each part padded to  *)
(* 3 digits: the third segment is always 001 and the fourth is the task's  *)
(* own third part ("10.03.04" gives "010.003.001.004", "1.1.2" gives       *)
(* "001.001.001.002").                                                     *)
C19_L3TaskUnderFirstContainer ==
    \A i \in Processed : (IsTask(i) /\ level(items[i]) = 3) =>
        LET raw == SplitDot(items[i].raw_item)
        IN  /\ Cardinality(OwnRows(i)) = 1
            /\ \A k \in OwnRows(i) :
                  /\ output[k].item = ZFill(raw[1], 3) \o "." \o ZFill(raw[2], 3)
                                        \o ".001." \o ZFill(raw[3], 3)
                  /\ items[i].raw_item = "10.03.04" =>
                        output[k].item = "010.003.001.004"
                  /\ items[i].raw_item = "1.1.2" =>
                        output[k].item = "001.001.001.002"

C19_Witness ==
    /\ pc = "done"
    /\ \E i \in Processed :
          /\ IsTask(i) /\ items[i].raw_item = "10.03.04"
          /\ \E k \in OwnRows(i) : output[k].item = "010.003.001.004"

(* ---------------------------------------------------------------------- *)
(* C20                                                                     *)
(* ---------------------------------------------------------------------- *)

(* C20: when the output of transform is fed back as input (a row is a task *)
(* exactly when it has code and unit), the second output equals the first  *)
(* row for row.                                                            *)
C20_Idempotent ==
    (pc = "done" /\ prev_output # None) => output = prev_output[1]

C20_Witness ==
    /\ pc = "done"
    /\ prev_output # None
    /\ Len(items) = 3
    /\ Len(output) = 3
    /\ output[1].item = "001.001.001" /\ output[1].code = None
    /\ output[2].item = "001.001.001.001" /\ output[2].unit = Some("un")
    /\ output[3].item = "001.001.001.002001003" /\ output[3].unit = Some("cx")

====
